---- MODULE Spec2Model ----
(***************************************************************************)
(* Breathing store (src/libs/breathing-store.ts) and breathing timer       *)
(* (src/hooks/use-breathing-timer.ts).                                      *)
(*                                                                         *)
(* Times are integer milliseconds.  The adjusted phase durations are the   *)
(* base durations multiplied by the ratio adjustedTotal / baseTotal; they  *)
(* are kept as exact fractions: a phase vector is a record whose fields    *)
(* inhale, holdIn, exhale, holdOut are numerators over the common          *)
(* denominator den.  Floating-point rounding is not modelled.               *)
(*                                                                         *)
(* A store action is one step together with the React render it causes and *)
(* the effects of that render (the ref synchronisation and the driver     *)
(* effect of useBreathingTimer): the hook is mounted from the start, alone  *)
(* in its component.  The hook renders when a value it selects from the     *)
(* store changes: isPlaying, currentTime, totalCycleTime, or adjustedPhases *)
(* (a new object at every withDerived).  The driver effect depends on      *)
(* [driver, isPlaying, tick]; tick is the function returned by              *)
(* useEffectEvent, a new function at every render (React 19.2), so the      *)
(* driver effect re-runs at every render of the hook.                       *)
(***************************************************************************)
EXTENDS Integers, Sequences, FiniteSets, TLC

VARIABLES
  \* ---- store: playback state
  isPlaying, currentPhase, currentTime, cycleCount, sessionTime,
  \* ---- store: pattern state, drafts, adjustment, derived values
  selectedPattern, customPattern, draftPhases, draftMethods, settingsSaved,
  cycleSpeedAdjustment, totalCycleTime, adjustedPhases,
  \* ---- timer refs
  timeRef, totalRef, phasesRef, lastTimestampRef, stopRef,
  \* ---- frame driver: number of subscriptions not yet stopped; the calls
  \*      of driver.start and of stop functions made by the last step
  driverActive, driverLog,
  \* ---- history: the last step taken, the timestamp of the previous tick of
  \*      the running playback and the sum of the positive differences of
  \*      consecutive timestamps since the last reset (kept by DeliverRun),
  \*      whether
  \*      totalCycleTime was set to at most currentTime since currentTime
  \*      was last written, number of configuration actions taken
  last, prevTimestamp, credited, shrunk, configOps,
  \* ---- getPhaseInfo applied to a drawn input (specification SpecPhaseInfo)
  probe

playbackVars == <<isPlaying, currentPhase, currentTime, cycleCount, sessionTime>>
configVars == <<selectedPattern, customPattern, draftPhases, draftMethods,
                settingsSaved, cycleSpeedAdjustment>>
derivedVars == <<totalCycleTime, adjustedPhases>>
storeVars == <<playbackVars, configVars, derivedVars>>
refVars == <<timeRef, totalRef, phasesRef, lastTimestampRef, stopRef>>
driverVars == <<driverActive, driverLog>>
vars == <<storeVars, refVars, driverVars, last, prevTimestamp, credited, shrunk,
          configOps, probe>>

----------------------------------------------------------------------------
\* Bounds of the model

\* configuration actions per behaviour
MaxConfigOps == 2
\* ticks are delivered while sessionTime stays within this bound (ms)
MaxSessionTime == 8000

\* timestamps a driver may deliver, in any order
Timestamps == {0, 4000, 8000}
\* arguments of the configuration actions
PatternKeyInputs == {"box", "4-7-8", "unknown-key"}
DraftKeyInputs == {"inhale"}
DraftValueInputs == {0, 11000}
MethodTypeInputs == {"exhale"}
MethodInputs == {"mouth"}
AdjustKeyInputs == {"inhale", "holdIn"}
PhaseDeltaInputs == {-5000, 700}
SpeedDeltaInputs == {-20000, -7000, 4000}

----------------------------------------------------------------------------
\* Values

Null == <<>>
Some(v) == <<v>>

Max(a, b) == IF a >= b THEN a ELSE b
Min(a, b) == IF a <= b THEN a ELSE b

PhaseKeys == {"inhale", "holdIn", "exhale", "holdOut"}
Methods == {"nose", "mouth"}

Phases(i, hi, e, ho) == [inhale |-> i, holdIn |-> hi, exhale |-> e, holdOut |-> ho]

PHASE_SEQUENCE ==
  << [key |-> "inhale",  phase |-> "inhale"],
     [key |-> "holdIn",  phase |-> "hold-in"],
     [key |-> "exhale",  phase |-> "exhale"],
     [key |-> "holdOut", phase |-> "hold-out"] >>

BREATHING_PATTERNS ==
  [ coherent |-> [phases |-> Phases(5000, 0, 5000, 0),
                  methods |-> [inhale |-> "nose", exhale |-> "nose"]],
    box      |-> [phases |-> Phases(4000, 4000, 4000, 4000),
                  methods |-> [inhale |-> "nose", exhale |-> "nose"]],
    p478     |-> [phases |-> Phases(4000, 7000, 8000, 0),
                  methods |-> [inhale |-> "nose", exhale |-> "mouth"]],
    extended |-> [phases |-> Phases(4000, 4000, 8000, 0),
                  methods |-> [inhale |-> "nose", exhale |-> "mouth"]],
    vitality |-> [phases |-> Phases(6000, 0, 2000, 0),
                  methods |-> [inhale |-> "nose", exhale |-> "mouth"]],
    drift    |-> [phases |-> Phases(4000, 7000, 8000, 4000),
                  methods |-> [inhale |-> "nose", exhale |-> "nose"]] ]

\* the key '4-7-8' of the source is written p478 (a record field name)
PresetKey(k) == IF k = "4-7-8" THEN "p478" ELSE k
HasPreset(k) == PresetKey(k) \in DOMAIN BREATHING_PATTERNS

DEFAULT_PATTERN_KEY == "coherent"

MIN_TOTAL == 500
MAX_PHASE == 10000

PresetOrDefault_First(k) ==
  IF HasPreset(k) THEN BREATHING_PATTERNS[PresetKey(k)]
  ELSE BREATHING_PATTERNS["box"]

\* BREATHING_PATTERNS[key] ?? BREATHING_PATTERNS[DEFAULT_PATTERN_KEY]
PresetOrDefault(k) ==
  IF HasPreset(k) THEN BREATHING_PATTERNS[PresetKey(k)]
  ELSE BREATHING_PATTERNS[DEFAULT_PATTERN_KEY]

clonePhases(p) == Phases(p.inhale, p.holdIn, p.exhale, p.holdOut)

\* custom patterns a caller may pass to setCustomPattern
CustomPatternInputs ==
  { [phases |-> Phases(0, 0, 0, 0),
     methods |-> [inhale |-> "nose", exhale |-> "nose"]],
    [phases |-> Phases(0, 100, 200, 0),
     methods |-> [inhale |-> "mouth", exhale |-> "mouth"]] }

----------------------------------------------------------------------------
\* Derivation (breathing-store.ts)

SumPhases(p) == p.inhale + p.holdIn + p.exhale + p.holdOut

Snapshot(sel, cust, adj, dPhases, dMethods) ==
  [selectedPattern |-> sel, customPattern |-> cust, cycleSpeedAdjustment |-> adj,
   draftPhases |-> dPhases, draftMethods |-> dMethods]

toSnapshot ==
  Snapshot(selectedPattern, customPattern, cycleSpeedAdjustment,
           draftPhases, draftMethods)

resolvePattern(state) ==
  IF state.selectedPattern = "custom"
  THEN IF state.customPattern # Null
       THEN state.customPattern[1]
       ELSE [phases |-> state.draftPhases, methods |-> state.draftMethods]
  ELSE PresetOrDefault(state.selectedPattern)

RECURSIVE GCD(_, _)
GCD(a, b) == IF b = 0 THEN a ELSE GCD(b, a % b)

deriveValues_NoFloor(state) ==
  LET pattern == resolvePattern(state)
      baseTotal == SumPhases(pattern.phases)
      adjustedTotal == baseTotal + state.cycleSpeedAdjustment
      g == GCD(adjustedTotal, baseTotal)
      ratioNum == IF baseTotal > 0 THEN adjustedTotal \div g ELSE 1
      ratioDen == IF baseTotal > 0 THEN baseTotal \div g ELSE 1
  IN [totalCycleTime |-> adjustedTotal,
      adjustedPhases |->
        [inhale  |-> Max(0, pattern.phases.inhale * ratioNum),
         holdIn  |-> Max(0, pattern.phases.holdIn * ratioNum),
         exhale  |-> Max(0, pattern.phases.exhale * ratioNum),
         holdOut |-> Max(0, pattern.phases.holdOut * ratioNum),
         den     |-> ratioDen]]

\* ratio = adjustedTotal / baseTotal (1 when baseTotal is not positive), kept
\* as the fraction ratioNum / ratioDen in lowest terms; each adjusted
\* duration is max(0, base * ratio), a numerator over ratioDen.
deriveValues(state) ==
  LET pattern == resolvePattern(state)
      baseTotal == SumPhases(pattern.phases)
      adjustedTotal == Max(MIN_TOTAL, baseTotal + state.cycleSpeedAdjustment)
      g == GCD(adjustedTotal, baseTotal)
      ratioNum == IF baseTotal > 0 THEN adjustedTotal \div g ELSE 1
      ratioDen == IF baseTotal > 0 THEN baseTotal \div g ELSE 1
  IN [totalCycleTime |-> adjustedTotal,
      adjustedPhases |->
        [inhale  |-> Max(0, pattern.phases.inhale * ratioNum),
         holdIn  |-> Max(0, pattern.phases.holdIn * ratioNum),
         exhale  |-> Max(0, pattern.phases.exhale * ratioNum),
         holdOut |-> Max(0, pattern.phases.holdOut * ratioNum),
         den     |-> ratioDen]]

getInitialBaseState ==
  LET defaultPattern == BREATHING_PATTERNS[DEFAULT_PATTERN_KEY]
  IN [isPlaying |-> FALSE, currentPhase |-> "ready", currentTime |-> 0,
      cycleCount |-> 1, sessionTime |-> 0,
      selectedPattern |-> DEFAULT_PATTERN_KEY, customPattern |-> Null,
      draftPhases |-> clonePhases(defaultPattern.phases),
      draftMethods |-> defaultPattern.methods,
      settingsSaved |-> TRUE, cycleSpeedAdjustment |-> 0]

----------------------------------------------------------------------------
\* Timer helpers (use-breathing-timer.ts)

clampTime_NoWrap(value, total) ==
  IF total <= 0 THEN 0
  ELSE IF value < 0 THEN 0
  ELSE value

clampTime(value, total) ==
  IF total <= 0 THEN 0
  ELSE IF value < 0 THEN 0
  ELSE IF value >= total THEN value % total
  ELSE value

\* the loop of getPhaseInfo from index i on; cursor and the durations are
\* numerators over phases.den
RECURSIVE phaseWalk(_, _, _)
phaseWalk(i, cursor, phases) ==
  IF i > Len(PHASE_SEQUENCE)
  THEN [phase |-> "inhale", elapsed |-> 0,
        duration |-> IF phases.inhale > 0 THEN phases.inhale ELSE phases.den,
        den |-> phases.den]
  ELSE LET duration == phases[PHASE_SEQUENCE[i].key]
       IN IF duration <= 0 THEN phaseWalk(i + 1, cursor, phases)
          ELSE IF cursor < duration
               THEN [phase |-> PHASE_SEQUENCE[i].phase, elapsed |-> cursor,
                     duration |-> duration, den |-> phases.den]
               ELSE phaseWalk(i + 1, cursor - duration, phases)

RECURSIVE phaseWalk_Inclusive(_, _, _)
phaseWalk_Inclusive(i, cursor, phases) ==
  IF i > Len(PHASE_SEQUENCE)
  THEN [phase |-> "inhale", elapsed |-> 0,
        duration |-> IF phases.inhale > 0 THEN phases.inhale ELSE phases.den,
        den |-> phases.den]
  ELSE LET duration == phases[PHASE_SEQUENCE[i].key]
       IN IF duration <= 0 THEN phaseWalk_Inclusive(i + 1, cursor, phases)
          ELSE IF cursor <= duration
               THEN [phase |-> PHASE_SEQUENCE[i].phase, elapsed |-> cursor,
                     duration |-> duration, den |-> phases.den]
               ELSE phaseWalk_Inclusive(i + 1, cursor - duration, phases)

getPhaseInfo_Inclusive(time, phases) ==
  phaseWalk_Inclusive(1, time * phases.den, phases)

RECURSIVE phaseWalk_NoGuard(_, _, _)
phaseWalk_NoGuard(i, cursor, phases) ==
  IF i > Len(PHASE_SEQUENCE)
  THEN [phase |-> "inhale", elapsed |-> 0, duration |-> phases.inhale,
        den |-> phases.den]
  ELSE LET duration == phases[PHASE_SEQUENCE[i].key]
       IN IF duration <= 0 THEN phaseWalk_NoGuard(i + 1, cursor, phases)
          ELSE IF cursor < duration
               THEN [phase |-> PHASE_SEQUENCE[i].phase, elapsed |-> cursor,
                     duration |-> duration, den |-> phases.den]
               ELSE phaseWalk_NoGuard(i + 1, cursor - duration, phases)

getPhaseInfo_NoGuard(time, phases) ==
  phaseWalk_NoGuard(1, time * phases.den, phases)

getPhaseInfo(time, phases) == phaseWalk(1, time * phases.den, phases)

wrapLoop_Once(time, total, completedCycles) ==
  IF time >= total
  THEN [time |-> time % total, completedCycles |-> completedCycles + 1]
  ELSE [time |-> time, completedCycles |-> completedCycles]

wrapLoop_NoCount(time, total, completedCycles) ==
  [time |-> IF time >= total THEN time % total ELSE time,
   completedCycles |-> completedCycles]

\* the cycle-wrap loop of tick: while (time >= total) { time -= total; n += 1 }
RECURSIVE wrapLoop(_, _, _)
wrapLoop(time, total, completedCycles) ==
  IF time >= total
  THEN wrapLoop(time - total, total, completedCycles + 1)
  ELSE [time |-> time, completedCycles |-> completedCycles]

frameDelta_Signed(timestamp, lastTimestamp) == timestamp - lastTimestamp

\* delta = difference > 0 ? difference : 0
frameDelta(timestamp, lastTimestamp) ==
  LET difference == timestamp - lastTimestamp
  IN IF difference > 0 THEN difference ELSE 0

\* the value of the store's currentPhase after the phase writes of tick:
\* 'inhale' is written when a cycle completed, then phase is written when the
\* snapshot taken at the start of the tick holds another phase
phaseAfterTick(snapshotPhase, completedCycles, phase) ==
  IF snapshotPhase # phase THEN phase
  ELSE IF completedCycles > 0 THEN "inhale"
  ELSE snapshotPhase

----------------------------------------------------------------------------
\* The store state without the derived values, as a record

State ==
  [isPlaying |-> isPlaying, currentPhase |-> currentPhase,
   currentTime |-> currentTime, cycleCount |-> cycleCount,
   sessionTime |-> sessionTime,
   selectedPattern |-> selectedPattern, customPattern |-> customPattern,
   draftPhases |-> draftPhases, draftMethods |-> draftMethods,
   settingsSaved |-> settingsSaved,
   cycleSpeedAdjustment |-> cycleSpeedAdjustment]

Derived == [totalCycleTime |-> totalCycleTime, adjustedPhases |-> adjustedPhases]

\* zustand set(): the store takes the fields of next and the derived values
SetStore(next, derived) ==
  /\ isPlaying' = next.isPlaying
  /\ currentPhase' = next.currentPhase
  /\ currentTime' = next.currentTime
  /\ cycleCount' = next.cycleCount
  /\ sessionTime' = next.sessionTime
  /\ selectedPattern' = next.selectedPattern
  /\ customPattern' = next.customPattern
  /\ draftPhases' = next.draftPhases
  /\ draftMethods' = next.draftMethods
  /\ settingsSaved' = next.settingsSaved
  /\ cycleSpeedAdjustment' = next.cycleSpeedAdjustment
  /\ totalCycleTime' = derived.totalCycleTime
  /\ adjustedPhases' = derived.adjustedPhases

\* set() of a partial state: the derived values are kept as they are
setWithAction(next) == SetStore(next, Derived)

\* withDerived: the derived values are recomputed from the state as changed
withDerived_Stale(next) == SetStore(next, Derived)

withDerived(next) ==
  SetStore(next,
           deriveValues(Snapshot(next.selectedPattern, next.customPattern,
                                 next.cycleSpeedAdjustment, next.draftPhases,
                                 next.draftMethods)))

----------------------------------------------------------------------------
\* The render that follows a store change, and its effects

SyncRefs_StalePhases ==
  LET afterTime == IF currentTime' # currentTime THEN currentTime' ELSE timeRef
  IN /\ totalRef' = IF totalCycleTime' # totalCycleTime
                      THEN totalCycleTime' ELSE totalRef
     /\ timeRef' = IF totalCycleTime' # totalCycleTime
                     THEN clampTime(afterTime, totalCycleTime')
                     ELSE afterTime
     /\ phasesRef' = phasesRef

SyncRefs_NoClamp ==
  LET afterTime == IF currentTime' # currentTime THEN currentTime' ELSE timeRef
  IN /\ totalRef' = IF totalCycleTime' # totalCycleTime
                      THEN totalCycleTime' ELSE totalRef
     /\ timeRef' = afterTime
     /\ phasesRef' = IF adjustedPhases' # adjustedPhases
                       THEN adjustedPhases' ELSE phasesRef

\* effects [currentTime], [totalCycleTime], [adjustedPhases]: each runs when
\* its dependency changed, in this order
SyncRefs ==
  LET afterTime == IF currentTime' # currentTime THEN currentTime' ELSE timeRef
  IN /\ totalRef' = IF totalCycleTime' # totalCycleTime
                      THEN totalCycleTime' ELSE totalRef
     /\ timeRef' = IF totalCycleTime' # totalCycleTime
                     THEN clampTime(afterTime, totalCycleTime')
                     ELSE afterTime
     /\ phasesRef' = IF adjustedPhases' # adjustedPhases
                       THEN adjustedPhases' ELSE phasesRef

NoDriverCalls == [started |-> 0, stopped |-> 0]

\* the hook renders when a selected value changed; newPhases: the step made a
\* new adjustedPhases object
HookRenders(newPhases) ==
  \/ newPhases
  \/ isPlaying' # isPlaying
  \/ currentTime' # currentTime
  \/ totalCycleTime' # totalCycleTime

DriverEffect_KeepTimestamp(newPhases, timestamp) ==
  IF ~HookRenders(newPhases)
  THEN /\ lastTimestampRef' = timestamp
       /\ driverLog' = NoDriverCalls
       /\ UNCHANGED <<stopRef, driverActive>>
  ELSE LET cleanupStops == IF stopRef # Null THEN 1 ELSE 0
           stopRefAfterCleanup == IF cleanupStops = 1 THEN Null ELSE stopRef
           bodyStops == IF ~isPlaying' /\ stopRefAfterCleanup # Null
                        THEN 1 ELSE 0
           starts == IF isPlaying' THEN 1 ELSE 0
       IN /\ lastTimestampRef' = timestamp
          /\ stopRef' = IF isPlaying' THEN Some("stop") ELSE Null
          /\ driverActive' = driverActive - cleanupStops - bodyStops + starts
          /\ driverLog' = [started |-> starts,
                           stopped |-> cleanupStops + bodyStops]

\* effect [driver, isPlaying, tick], run at every render of the hook: the
\* cleanup returned by the previous run (it exists when that run started the
\* driver, and then stopRef holds its stop), then the body.  timestamp is
\* what lastTimestampRef holds when no render follows.
DriverEffect(newPhases, timestamp) ==
  IF ~HookRenders(newPhases)
  THEN /\ lastTimestampRef' = timestamp
       /\ driverLog' = NoDriverCalls
       /\ UNCHANGED <<stopRef, driverActive>>
  ELSE LET cleanupStops == IF stopRef # Null THEN 1 ELSE 0
           stopRefAfterCleanup == IF cleanupStops = 1 THEN Null ELSE stopRef
           bodyStops == IF ~isPlaying' /\ stopRefAfterCleanup # Null
                        THEN 1 ELSE 0
           starts == IF isPlaying' THEN 1 ELSE 0
       IN /\ lastTimestampRef' = Null
          /\ stopRef' = IF isPlaying' THEN Some("stop") ELSE Null
          /\ driverActive' = driverActive - cleanupStops - bodyStops + starts
          /\ driverLog' = [started |-> starts,
                           stopped |-> cleanupStops + bodyStops]

\* the render after a withDerived action
Render == SyncRefs /\ DriverEffect(TRUE, lastTimestampRef)

\* the render, when there is one, after a plain set
RenderAfterSet == SyncRefs /\ DriverEffect(FALSE, lastTimestampRef)

\* history kept across a store action: the driver's clock runs on while
\* playback continues
Clock ==
  prevTimestamp' = IF isPlaying /\ isPlaying' THEN prevTimestamp ELSE Null

----------------------------------------------------------------------------
\* Store actions, each with the render it causes

Step(op) == [op |-> op, key |-> "", arg |-> 0, cycles |-> 0, delta |-> 0]

\* last.key, last.arg: the arguments of adjustPhase and of updateDraftPhase.
\* last.key: the argument of selectPattern, and then last.arg: 1 when the
\* speed was adjusted or the selection was 'custom' before it.
\* last.arg: the delta of adjustCycleSpeed; for a tick that ran past the
\* first-tick guard, 1 when shrunk held before it; for play, 1 when
\* it resumes a paused session with time elapsed; for a first tick, 1 when
\* the step before it was play() and 2 when that play() resumed; for reset, 1 when it was called during
\* playback with time elapsed, a cycle completed and the speed adjusted.
\* last.cycles, last.delta: the cycles completed and the time added by a tick

\* history kept across a store action and its render
Shrink == shrunk' = (shrunk \/ totalCycleTime' <= currentTime')

playChanges == [State EXCEPT !.isPlaying = TRUE, !.currentPhase = "inhale"]

pauseChanges_Rewind == [State EXCEPT !.isPlaying = FALSE, !.currentTime = 0]

pauseChanges == [State EXCEPT !.isPlaying = FALSE]

play ==
  /\ withDerived(playChanges)
  /\ Render
  /\ last' = [Step("play") EXCEPT
                !.arg = IF ~isPlaying /\ sessionTime > 0 THEN 1 ELSE 0]
  /\ Shrink
  /\ Clock
  /\ UNCHANGED <<credited, configOps, probe>>

pause ==
  /\ setWithAction(pauseChanges)
  /\ RenderAfterSet
  /\ last' = Step("pause")
  /\ Clock
  /\ UNCHANGED <<credited, shrunk, configOps, probe>>

\* history kept across reset
ResetHistory ==
  /\ last' = [op |-> "reset", key |-> "",
              arg |-> IF /\ isPlaying
                         /\ sessionTime > 0
                         /\ cycleCount > 1
                         /\ cycleSpeedAdjustment # 0
                      THEN 1 ELSE 0,
              cycles |-> 0, delta |-> 0]
  /\ credited' = 0
  /\ shrunk' = FALSE
  /\ Clock
  /\ UNCHANGED <<configOps, probe>>

reset_Partial ==
  /\ withDerived([State EXCEPT !.isPlaying = FALSE, !.currentPhase = "ready",
                               !.currentTime = 0])
  /\ Render
  /\ ResetHistory

reset ==
  /\ withDerived(getInitialBaseState)
  /\ Render
  /\ ResetHistory

ConfigKey(op, key, arg) ==
  /\ configOps < MaxConfigOps
  /\ configOps' = configOps + 1
  /\ last' = [op |-> op, key |-> key, arg |-> arg, cycles |-> 0, delta |-> 0]
  /\ UNCHANGED <<credited, probe>>

Config(op, arg) == ConfigKey(op, "", arg)

selectPattern_KeepSpeed(patternKey) ==
  /\ ConfigKey("selectPattern", patternKey,
               IF cycleSpeedAdjustment # 0 \/ selectedPattern = "custom"
               THEN 1 ELSE 0)
  /\ LET preset == PresetOrDefault(patternKey)
     IN withDerived([State EXCEPT !.selectedPattern = patternKey,
                                  !.customPattern = Null,
                                  !.draftPhases = clonePhases(preset.phases),
                                  !.draftMethods = preset.methods,
                                  !.settingsSaved = TRUE])
  /\ Render
  /\ Shrink
  /\ Clock

selectPattern(patternKey) ==
  /\ ConfigKey("selectPattern", patternKey,
               IF cycleSpeedAdjustment # 0 \/ selectedPattern = "custom"
               THEN 1 ELSE 0)
  /\ LET preset == PresetOrDefault(patternKey)
     IN withDerived([State EXCEPT !.selectedPattern = patternKey,
                                  !.customPattern = Null,
                                  !.draftPhases = clonePhases(preset.phases),
                                  !.draftMethods = preset.methods,
                                  !.settingsSaved = TRUE,
                                  !.cycleSpeedAdjustment = 0])
  /\ Render
  /\ Shrink
  /\ Clock

setCustomPattern_Rewind(pattern) ==
  /\ Config("setCustomPattern", 0)
  /\ withDerived([State EXCEPT !.selectedPattern = "custom",
                               !.customPattern = Some(pattern),
                               !.draftPhases = clonePhases(pattern.phases),
                               !.draftMethods = pattern.methods,
                               !.settingsSaved = TRUE,
                               !.currentTime = 0,
                               !.currentPhase = "inhale"])
  /\ Render
  /\ Shrink
  /\ Clock

setCustomPattern(pattern) ==
  /\ Config("setCustomPattern", 0)
  /\ withDerived([State EXCEPT !.selectedPattern = "custom",
                               !.customPattern = Some(pattern),
                               !.draftPhases = clonePhases(pattern.phases),
                               !.draftMethods = pattern.methods,
                               !.settingsSaved = TRUE])
  /\ Render
  /\ Shrink
  /\ Clock

updateDraftPhase_Live(phase, value) ==
  /\ ConfigKey("updateDraftPhase", phase, value)
  /\ withDerived([State EXCEPT
        !.draftPhases = [draftPhases EXCEPT ![phase] = Max(0, Min(MAX_PHASE, value))],
        !.settingsSaved = FALSE])
  /\ Render
  /\ Shrink
  /\ Clock

updateDraftPhase(phase, value) ==
  /\ ConfigKey("updateDraftPhase", phase, value)
  /\ setWithAction([State EXCEPT
        !.draftPhases = [draftPhases EXCEPT ![phase] = Max(0, Min(MAX_PHASE, value))],
        !.settingsSaved = FALSE])
  /\ RenderAfterSet
  /\ Shrink
  /\ Clock

updateDraftMethod(type, method) ==
  /\ Config("updateDraftMethod", 0)
  /\ setWithAction([State EXCEPT
        !.draftMethods = [draftMethods EXCEPT ![type] = method],
        !.settingsSaved = FALSE])
  /\ RenderAfterSet
  /\ Shrink
  /\ Clock

saveSettings_KeepSelection ==
  /\ Config("saveSettings", 0)
  /\ LET custom == [phases |-> clonePhases(draftPhases), methods |-> draftMethods]
     IN withDerived([State EXCEPT !.customPattern = Some(custom),
                                  !.settingsSaved = TRUE])
  /\ Render
  /\ Shrink
  /\ Clock

saveSettings ==
  /\ Config("saveSettings", 0)
  /\ LET custom == [phases |-> clonePhases(draftPhases), methods |-> draftMethods]
     IN withDerived([State EXCEPT !.selectedPattern = "custom",
                                  !.customPattern = Some(custom),
                                  !.settingsSaved = TRUE])
  /\ Render
  /\ Shrink
  /\ Clock

adjustCycleSpeed_NoFloor(delta) ==
  /\ Config("adjustCycleSpeed", delta)
  /\ withDerived([State EXCEPT
        !.cycleSpeedAdjustment = cycleSpeedAdjustment + delta])
  /\ Render
  /\ Shrink
  /\ Clock

adjustCycleSpeed(delta) ==
  /\ Config("adjustCycleSpeed", delta)
  /\ LET pattern == resolvePattern(State)
         baseTotal == SumPhases(pattern.phases)
         minAdjustment == (0 - baseTotal) + MIN_TOTAL
         nextAdjustment == Max(minAdjustment, cycleSpeedAdjustment + delta)
     IN withDerived([State EXCEPT !.cycleSpeedAdjustment = nextAdjustment])
  /\ Render
  /\ Shrink
  /\ Clock

adjustPhase_NoClamp(phase, delta) ==
  /\ ConfigKey("adjustPhase", phase, delta)
  /\ withDerived([State EXCEPT
        !.draftPhases = [draftPhases EXCEPT ![phase] = Max(0, draftPhases[phase] + delta)],
        !.selectedPattern = "custom",
        !.settingsSaved = FALSE])
  /\ Render
  /\ Shrink
  /\ Clock

adjustPhase(phase, delta) ==
  /\ ConfigKey("adjustPhase", phase, delta)
  /\ LET nextValue == Max(0, Min(MAX_PHASE, draftPhases[phase] + delta))
     IN withDerived([State EXCEPT
           !.draftPhases = [draftPhases EXCEPT ![phase] = nextValue],
           !.selectedPattern = "custom",
           !.settingsSaved = FALSE])
  /\ Render
  /\ Shrink
  /\ Clock

----------------------------------------------------------------------------
\* Persistence (persist options of the store)

\* partialize: the fields written to storage at every set
partialize ==
  [selectedPattern |-> selectedPattern, customPattern |-> customPattern,
   draftPhases |-> draftPhases, draftMethods |-> draftMethods,
   cycleSpeedAdjustment |-> cycleSpeedAdjustment]

merge_DropAdjustment(persisted, current) ==
  LET merged == [current EXCEPT
                   !.selectedPattern = persisted.selectedPattern,
                   !.customPattern = persisted.customPattern,
                   !.draftPhases = persisted.draftPhases,
                   !.draftMethods = persisted.draftMethods]
  IN [state |-> merged,
      derived |-> deriveValues(Snapshot(merged.selectedPattern,
                                        merged.customPattern,
                                        merged.cycleSpeedAdjustment,
                                        merged.draftPhases,
                                        merged.draftMethods))]

\* merge: the persisted fields over the state of the store just created, and
\* the derived values of the result
merge(persisted, current) ==
  LET merged == [current EXCEPT
                   !.selectedPattern = persisted.selectedPattern,
                   !.customPattern = persisted.customPattern,
                   !.draftPhases = persisted.draftPhases,
                   !.draftMethods = persisted.draftMethods,
                   !.cycleSpeedAdjustment = persisted.cycleSpeedAdjustment]
  IN [state |-> merged,
      derived |-> deriveValues(Snapshot(merged.selectedPattern,
                                        merged.customPattern,
                                        merged.cycleSpeedAdjustment,
                                        merged.draftPhases,
                                        merged.draftMethods))]

\* a restart of the application: the store is created anew and rehydrated
\* from storage, which holds partialize of the state at the last set (of the
\* initial state when nothing was set); the hook is mounted anew.
\* last.arg: 1 when playback was running with time elapsed, a cycle
\* completed and unsaved drafts
rehydrate ==
  /\ LET hydrated == merge(partialize, getInitialBaseState)
     IN SetStore(hydrated.state, hydrated.derived)
  /\ timeRef' = currentTime'
  /\ totalRef' = totalCycleTime'
  /\ phasesRef' = adjustedPhases'
  /\ lastTimestampRef' = Null
  /\ stopRef' = Null
  /\ driverActive' = 0
  /\ driverLog' = NoDriverCalls
  /\ last' = [Step("rehydrate") EXCEPT
                !.arg = IF /\ isPlaying
                           /\ sessionTime > 0
                           /\ cycleCount > 1
                           /\ ~settingsSaved
                        THEN 1 ELSE 0]
  /\ prevTimestamp' = Null
  /\ credited' = 0
  /\ shrunk' = FALSE
  /\ UNCHANGED <<configOps, probe>>

----------------------------------------------------------------------------
\* tick: one callback of the frame driver.  store is the snapshot read from
\* storeRef when the callback starts; the actions called on it act on the
\* live store.

tick(timestamp) ==
  IF ~isPlaying
  THEN /\ lastTimestampRef' = Null
       /\ last' = Step("tickIdle")
       /\ driverLog' = NoDriverCalls
       /\ UNCHANGED <<storeVars, timeRef, totalRef, phasesRef, stopRef,
                      driverActive, shrunk, configOps, probe>>
  ELSE
    /\ UNCHANGED <<configOps, probe>>
    /\ IF lastTimestampRef = Null
       THEN /\ lastTimestampRef' = Some(timestamp)
            /\ last' = [Step("tickFirst") EXCEPT
                          !.arg = IF last.op = "play" THEN 1 + last.arg ELSE 0]
            /\ driverLog' = NoDriverCalls
            /\ UNCHANGED <<storeVars, timeRef, totalRef, phasesRef, stopRef,
                           driverActive, shrunk>>
       ELSE
         LET delta == frameDelta(timestamp, lastTimestampRef[1])
             total == totalRef
         IN IF total <= 0
            THEN /\ lastTimestampRef' = Some(timestamp)
                 /\ last' = Step("tickNoTotal")
                 /\ driverLog' = NoDriverCalls
                 /\ UNCHANGED <<storeVars, timeRef, totalRef, phasesRef,
                                stopRef, driverActive, shrunk>>
            ELSE
              LET wrapped == wrapLoop(timeRef + delta, total, 0)
                  completedCycles == wrapped.completedCycles
                  phase == getPhaseInfo(wrapped.time, phasesRef).phase
                  written == phaseAfterTick(currentPhase, completedCycles, phase)
              IN /\ setWithAction([State EXCEPT
                       !.cycleCount = cycleCount + completedCycles,
                       !.sessionTime = sessionTime + delta,
                       !.currentTime = wrapped.time,
                       !.currentPhase = written])
                 \* timeRef holds the wrapped time; the [currentTime] effect
                 \* of the render that follows writes the same value
                 /\ timeRef' = wrapped.time
                 /\ UNCHANGED <<totalRef, phasesRef>>
                 /\ DriverEffect(FALSE, Some(timestamp))
                 /\ shrunk' = FALSE
                 /\ last' = [op |-> IF timestamp > lastTimestampRef[1]
                                    THEN "tickForward" ELSE "tickBack",
                             key |-> "",
                             arg |-> IF shrunk THEN 1 ELSE 0,
                             cycles |-> completedCycles,
                             delta |-> delta]

----------------------------------------------------------------------------
\* Initial state: the store as created, the hook mounted

InitStore ==
  LET base == getInitialBaseState
      derived == deriveValues(base)
  IN /\ isPlaying = base.isPlaying
     /\ currentPhase = base.currentPhase
     /\ currentTime = base.currentTime
     /\ cycleCount = base.cycleCount
     /\ sessionTime = base.sessionTime
     /\ selectedPattern = base.selectedPattern
     /\ customPattern = base.customPattern
     /\ draftPhases = base.draftPhases
     /\ draftMethods = base.draftMethods
     /\ settingsSaved = base.settingsSaved
     /\ cycleSpeedAdjustment = base.cycleSpeedAdjustment
     /\ totalCycleTime = derived.totalCycleTime
     /\ adjustedPhases = derived.adjustedPhases

\* useRef initial values, read from the store at the first render
InitTimer ==
  /\ timeRef = currentTime
  /\ totalRef = totalCycleTime
  /\ phasesRef = adjustedPhases
  /\ lastTimestampRef = Null
  /\ stopRef = Null
  /\ driverActive = 0
  /\ driverLog = NoDriverCalls

NoProbe == [time |-> 0, phases |-> Null, result |-> Null]

\* the frame driver calls back with timestamp; the session stays within bound
Deliver(timestamp, bound) ==
  /\ (isPlaying /\ lastTimestampRef # Null)
       => sessionTime + Max(0, timestamp - lastTimestampRef[1]) <= bound
  /\ tick(timestamp)
  /\ UNCHANGED <<prevTimestamp, credited>>

Init ==
  /\ InitStore
  /\ InitTimer
  /\ last = Step("init")
  /\ prevTimestamp = Null
  /\ credited = 0
  /\ shrunk = FALSE
  /\ configOps = 0
  /\ probe = NoProbe

Next ==
  \/ play
  \/ pause
  \/ reset
  \/ \E patternKey \in PatternKeyInputs : selectPattern(patternKey)
  \/ \E pattern \in CustomPatternInputs : setCustomPattern(pattern)
  \/ \E phase \in DraftKeyInputs, value \in DraftValueInputs :
        updateDraftPhase(phase, value)
  \/ \E type \in MethodTypeInputs, method \in MethodInputs :
        updateDraftMethod(type, method)
  \/ saveSettings
  \/ \E delta \in SpeedDeltaInputs : adjustCycleSpeed(delta)
  \/ \E phase \in AdjustKeyInputs, delta \in PhaseDeltaInputs :
        adjustPhase(phase, delta)
  \/ rehydrate
  \/ \E timestamp \in Timestamps : Deliver(timestamp, MaxSessionTime)

Spec == Init /\ [][Next]_vars

----------------------------------------------------------------------------
\* Continuous playback from a fresh start: the pattern is configured before
\* the first play(), then only ticks follow.

\* ticks are delivered while the time that passed on the driver's clock
\* since play() stays within this bound (ms)
MaxRunTime == 10000
RunTimestamps == {0, 1000, 3000}

\* the time that passed on the driver's clock since the previous tick
Passed(timestamp) ==
  IF prevTimestamp # Null THEN Max(0, timestamp - prevTimestamp[1]) ELSE 0

\* a callback of the driver, with the history of its clock
DeliverRun(timestamp, bound) ==
  /\ credited + Passed(timestamp) <= bound
  /\ tick(timestamp)
  /\ prevTimestamp' = Some(timestamp)
  /\ credited' = credited + Passed(timestamp)

Fresh == ~isPlaying /\ currentPhase = "ready" /\ sessionTime = 0

NextRun ==
  \/ Fresh /\ play
  \/ Fresh /\ \E patternKey \in PatternKeyInputs : selectPattern(patternKey)
  \/ Fresh /\ \E pattern \in CustomPatternInputs : setCustomPattern(pattern)
  \/ Fresh /\ \E phase \in DraftKeyInputs, value \in DraftValueInputs :
        updateDraftPhase(phase, value)
  \/ Fresh /\ saveSettings
  \/ Fresh /\ \E delta \in SpeedDeltaInputs : adjustCycleSpeed(delta)
  \/ Fresh /\ \E phase \in AdjustKeyInputs, delta \in PhaseDeltaInputs :
        adjustPhase(phase, delta)
  \/ isPlaying /\ \E timestamp \in RunTimestamps :
                    DeliverRun(timestamp, MaxRunTime)

SpecRun == Init /\ [][NextRun]_vars

----------------------------------------------------------------------------
\* getPhaseInfo applied to drawn inputs

MaxProbeDuration == 3
ProbeDurations == 0 .. MaxProbeDuration
ProbeDens == {1, 3}

ProbePhases ==
  { [inhale |-> i, holdIn |-> hi, exhale |-> e, holdOut |-> ho, den |-> d] :
      i \in ProbeDurations, hi \in ProbeDurations, e \in ProbeDurations,
      ho \in ProbeDurations, d \in ProbeDens }

InitPhaseInfo ==
  /\ InitStore
  /\ InitTimer
  /\ last = Step("init")
  /\ prevTimestamp = Null
  /\ credited = 0
  /\ shrunk = FALSE
  /\ configOps = 0
  /\ \E phases \in ProbePhases :
       \E time \in 0 .. SumPhases(phases) :
         probe = [time |-> time, phases |-> Some(phases), result |-> Null]

applyGetPhaseInfo ==
  /\ probe.result = Null
  /\ probe' = [probe EXCEPT
                 !.result = Some(getPhaseInfo(probe.time, probe.phases[1]))]
  /\ UNCHANGED <<storeVars, refVars, driverVars, last, prevTimestamp,
                 credited, shrunk, configOps>>

NextPhaseInfo == applyGetPhaseInfo

SpecPhaseInfo == InitPhaseInfo /\ [][NextPhaseInfo]_vars

----------------------------------------------------------------------------
\* Claims

TickOps == {"tickIdle", "tickFirst", "tickNoTotal", "tickForward", "tickBack"}
AdvanceOps == {"tickForward", "tickBack"}

\* Outputs of useBreathingTimer, computed at each render from the store
phaseInfo == getPhaseInfo(currentTime, adjustedPhases)

cycleProgress_NoMin ==
  IF totalCycleTime <= 0 THEN [num |-> 0, den |-> 1]
  ELSE [num |-> currentTime, den |-> totalCycleTime]

\* Math.min(1, currentTime / totalCycleTime), as a fraction
cycleProgress ==
  IF totalCycleTime <= 0 THEN [num |-> 0, den |-> 1]
  ELSE IF currentTime >= totalCycleTime THEN [num |-> 1, den |-> 1]
  ELSE [num |-> currentTime, den |-> totalCycleTime]

\* a step that is a tick run past the first-tick guard; last'.delta is its
\* delta, and last'.op is tickBack when its timestamp is not larger than the
\* previous one
AdvancingTick ==
  /\ last'.op \in AdvanceOps
  /\ isPlaying
  /\ lastTimestampRef # Null

\* C1 as stated: the store's currentTime lies in [0, totalCycleTime) in every
\* reachable state, also right after a mutation that reduced totalCycleTime.
C1_CurrentTimeInRange == 0 <= currentTime /\ currentTime < totalCycleTime

\* C1 amended: in every reachable state the timer's elapsed time timeRef lies
\* in [0, totalCycleTime) and currentTime >= 0; the store's currentTime
\* equals timeRef (and so is in range) right after every tick that ran past
\* the first-tick guard and whenever totalCycleTime was not reduced to at
\* most currentTime since currentTime was last written.
C1_ShadowInRange ==
  /\ 0 <= timeRef
  /\ timeRef < totalCycleTime
  /\ totalRef = totalCycleTime
  /\ 0 <= currentTime
  /\ (last.op \in AdvanceOps => currentTime = timeRef)
  /\ (~shrunk => currentTime = timeRef)

\* right after a mutation that took totalCycleTime below currentTime
C1_Witness ==
  /\ last.op = "adjustCycleSpeed"
  /\ currentTime >= totalCycleTime
  /\ timeRef < totalCycleTime
  /\ isPlaying

\* C2 as stated: the four adjusted phase durations sum to totalCycleTime in
\* every reachable state (the durations are numerators over den).
C2_SumEqualsTotal ==
  SumPhases(adjustedPhases) = totalCycleTime * adjustedPhases.den

\* C3 as stated: while playing, a tick whose timestamp is not larger than the
\* previous one leaves the store's currentTime unchanged.
C3_BackTickKeepsTime ==
  [][(AdvancingTick /\ last'.op = "tickBack")
       => currentTime' = currentTime]_vars

\* C3 amended: while playing, a tick whose timestamp is not larger than the
\* previous one adds no time: it writes the timer's elapsed time timeRef to
\* currentTime and leaves sessionTime and cycleCount unchanged; currentTime
\* is unchanged unless totalCycleTime was reduced to at most currentTime
\* since currentTime was last written.
C3_BackTickAddsNoTime ==
  [][(AdvancingTick /\ last'.op = "tickBack")
       => /\ currentTime' = timeRef
          /\ (~shrunk => currentTime' = currentTime)
          /\ sessionTime' = sessionTime
          /\ cycleCount' = cycleCount]_vars

\* a regressing tick was delivered after the cycle had been shrunk below
\* currentTime
C3_Witness ==
  /\ last.op = "tickBack"
  /\ last.arg = 1
  /\ sessionTime > 0

\* C4: sessionTime and cycleCount do not decrease in any tick, play or pause
\* step, whatever the order of the timestamps.
C4_Monotonic ==
  [][last'.op \in (TickOps \cup {"play", "pause"})
       => (sessionTime' >= sessionTime /\ cycleCount' >= cycleCount)]_vars

\* a regressing tick after time was credited and a cycle completed
C4_Witness ==
  /\ last.op = "tickBack"
  /\ sessionTime > 0
  /\ cycleCount > 1

\* C5: pause() changes isPlaying only, and a tick delivered while isPlaying is
\* false changes no store field.
C5_PauseFreezes ==
  [][/\ last'.op = "pause"
          => /\ isPlaying' = FALSE
             /\ UNCHANGED <<currentPhase, currentTime, cycleCount, sessionTime,
                            configVars, derivedVars>>
     /\ (last'.op \in TickOps /\ ~isPlaying) => UNCHANGED storeVars]_vars

\* a tick delivered while paused in mid-cycle
C5_Witness ==
  /\ last.op = "tickIdle"
  /\ ~isPlaying
  /\ currentTime > 0
  /\ sessionTime > 0

\* C6: cycleCount starts at 1, and a tick that runs past the first-tick guard
\* with delta = max(0, timestamp - previous timestamp), from the timer's
\* elapsed time t = timeRef and T = totalCycleTime, leaves
\* currentTime = (t + delta) mod T and adds floor((t + delta) / T) to
\* cycleCount.
C6_WrapArithmetic ==
  /\ cycleCount = 1
  /\ [][AdvancingTick =>
          LET delta == last'.delta
              sum == timeRef + delta
          IN /\ currentTime' = sum % totalCycleTime
             /\ cycleCount' = cycleCount + (sum \div totalCycleTime)]_vars

\* one tick completed several cycles
C6_Witness ==
  /\ last.op = "tickForward"
  /\ last.cycles >= 2
  /\ cycleCount >= 3
  /\ currentTime > 0

\* C7 as stated: in continuous playback from a fresh start, with D the sum
\* of the positive differences of consecutive timestamps, sessionTime = D,
\* currentTime = D mod totalCycleTime and
\* cycleCount = 1 + floor(D / totalCycleTime).
C7_NoDrift ==
  /\ sessionTime = credited
  /\ currentTime = credited % totalCycleTime
  /\ cycleCount = 1 + (credited \div totalCycleTime)

\* the durations of the phases before position i of PHASE_SEQUENCE
RECURSIVE DurationBefore(_, _)
DurationBefore(i, phases) ==
  IF i <= 1 THEN 0
  ELSE DurationBefore(i - 1, phases) + phases[PHASE_SEQUENCE[i - 1].key]

\* position i is the phase that contains cursor (a numerator over phases.den)
Contains(i, cursor, phases) ==
  /\ DurationBefore(i, phases) <= cursor
  /\ cursor < DurationBefore(i, phases) + phases[PHASE_SEQUENCE[i].key]

\* C8: for non-negative durations and 0 <= t < their sum, getPhaseInfo
\* returns the one phase whose interval contains t, with elapsed the offset
\* of t in that interval and duration the (positive) duration of the phase.
C8_PhaseOfTime ==
  (probe.result # Null /\ probe.time * probe.phases[1].den < SumPhases(probe.phases[1]))
    => LET phases == probe.phases[1]
           cursor == probe.time * phases.den
           r == probe.result[1]
       IN \E i \in 1 .. Len(PHASE_SEQUENCE) :
            /\ r.phase = PHASE_SEQUENCE[i].phase
            /\ Contains(i, cursor, phases)
            /\ phases[PHASE_SEQUENCE[i].key] > 0
            /\ r.elapsed = cursor - DurationBefore(i, phases)
            /\ r.duration = phases[PHASE_SEQUENCE[i].key]
            /\ \A j \in 1 .. Len(PHASE_SEQUENCE) :
                 Contains(j, cursor, phases) => j = i

\* hold-out is returned at a positive offset after hold-in was skipped
C8_Witness ==
  /\ probe.result # Null
  /\ probe.phases[1].holdIn = 0
  /\ probe.phases[1].inhale > 0
  /\ probe.phases[1].exhale > 0
  /\ probe.result[1].phase = "hold-out"
  /\ probe.result[1].elapsed > 0

PositiveKeys(phases) == {k \in PhaseKeys : phases[k] > 0}

ShortestPositive(phases) ==
  CHOOSE d \in {phases[k] : k \in PositiveKeys(phases)} :
    \A k \in PositiveKeys(phases) : d <= phases[k]

PositionOf(phase) ==
  CHOOSE i \in 1 .. Len(PHASE_SEQUENCE) : PHASE_SEQUENCE[i].phase = phase

\* the first phase with a positive duration at 1 to 4 places after position i
\* in the cyclic order
RECURSIVE NextPositiveFrom(_, _, _)
NextPositiveFrom(i, n, phases) ==
  LET j == ((i + n - 1) % Len(PHASE_SEQUENCE)) + 1
  IN IF phases[PHASE_SEQUENCE[j].key] > 0 \/ n >= Len(PHASE_SEQUENCE)
     THEN PHASE_SEQUENCE[j].phase
     ELSE NextPositiveFrom(i, n + 1, phases)

NextPositive(phase, phases) == NextPositiveFrom(PositionOf(phase), 1, phases)

\* C9 as stated: in continuous playback with fixed durations, a tick whose
\* delta is smaller than the shortest positive phase duration leaves
\* currentPhase as it is or moves it to the next phase of the cyclic order
\* that has a positive duration; the phase after the tick has a positive
\* duration.
C9_CyclicOrder ==
  [][(AdvancingTick /\ PositiveKeys(adjustedPhases) # {}
        /\ last'.delta * adjustedPhases.den
             < ShortestPositive(adjustedPhases))
       => /\ currentPhase' \in {currentPhase,
                                NextPositive(currentPhase, adjustedPhases)}
          /\ adjustedPhases[PHASE_SEQUENCE[PositionOf(currentPhase')].key] > 0]_vars

\* C10 as stated: adjustCycleSpeed(d), d > 0, during playback leaves
\* currentTime unchanged, raises totalCycleTime by d, and cycleProgress
\* becomes currentTime / newTotal.
C10_GrowsByDelta ==
  [][(last'.op = "adjustCycleSpeed" /\ last'.arg > 0 /\ isPlaying)
       => /\ currentTime' = currentTime
          /\ totalCycleTime' = totalCycleTime + last'.arg
          /\ cycleProgress'.num * totalCycleTime'
               = currentTime * cycleProgress'.den]_vars

\* C10 amended: adjustCycleSpeed(d), d > 0, leaves currentTime unchanged; the
\* new speed adjustment is max(500 - baseTotal, old + d) for the resolved
\* pattern and the new total max(500, baseTotal + adjustment), which is the
\* old total plus d when the old total was baseTotal + old adjustment; the
\* adjusted phases are the base phases scaled to the new total; the reported
\* phase is that of currentTime in them and cycleProgress is
\* min(1, currentTime / newTotal).
C10_LengthenKeepsPosition ==
  [][(last'.op = "adjustCycleSpeed" /\ last'.arg > 0)
       => LET base == resolvePattern(State).phases
              baseTotal == SumPhases(base)
              adjustment == Max(MIN_TOTAL - baseTotal,
                                cycleSpeedAdjustment + last'.arg)
          IN /\ currentTime' = currentTime
             /\ cycleSpeedAdjustment' = adjustment
             /\ totalCycleTime' = Max(MIN_TOTAL, baseTotal + adjustment)
             /\ (totalCycleTime = baseTotal + cycleSpeedAdjustment)
                  => totalCycleTime' = totalCycleTime + last'.arg
             /\ baseTotal > 0
                  => LET g == GCD(totalCycleTime', baseTotal)
                     IN \A k \in PhaseKeys :
                          adjustedPhases'[k] * (baseTotal \div g)
                            = base[k] * (totalCycleTime' \div g)
                                * adjustedPhases'.den
             /\ phaseInfo'.phase = getPhaseInfo(currentTime, adjustedPhases').phase
             /\ IF currentTime < totalCycleTime'
                THEN cycleProgress'.num * totalCycleTime'
                       = currentTime * cycleProgress'.den
                ELSE cycleProgress'.num = cycleProgress'.den
             /\ (selectedPattern = "box" /\ cycleSpeedAdjustment = 0
                   /\ currentTime = 8000 /\ last'.arg = 4000)
                  => /\ totalCycleTime' = 20000
                     /\ phaseInfo'.phase = "hold-in"]_vars

\* the 4000x4 pattern lengthened by 4000 at currentTime 8000 during playback
C10_Witness ==
  /\ last.op = "adjustCycleSpeed"
  /\ last.arg = 4000
  /\ isPlaying
  /\ selectedPattern = "box"
  /\ currentTime = 8000
  /\ totalCycleTime = 20000
  /\ phaseInfo.phase = "hold-in"
  /\ currentPhase = "exhale"

\* C11 as stated: when totalCycleTime was reduced to at most currentTime
\* during playback, the next tick, also one with zero delta, leaves the
\* store's currentTime below totalCycleTime, and the reported phase is the
\* phase of that time.
C11_NextTickReclamps ==
  [][(last'.op \in TickOps /\ isPlaying /\ currentTime >= totalCycleTime)
       => /\ currentTime' < totalCycleTime'
          /\ phaseInfo'.phase = getPhaseInfo(timeRef, adjustedPhases').phase
          /\ currentPhase' = phaseInfo'.phase]_vars

\* the sum of the base durations of the active pattern
activeBaseTotal == SumPhases(resolvePattern(toSnapshot).phases)

\* C12: totalCycleTime is at least 500 ms in every reachable state, whatever
\* the sequence of store actions and their arguments, also for custom
\* patterns whose base total is below 500 or 0.
C12_TotalAtLeastFloor == totalCycleTime >= MIN_TOTAL

\* a custom pattern with base total 0 after a negative adjustCycleSpeed
C12_Witness ==
  /\ last.op = "adjustCycleSpeed"
  /\ last.arg < 0
  /\ selectedPattern = "custom"
  /\ activeBaseTotal = 0
  /\ totalCycleTime = MIN_TOTAL

activeBasePhases == resolvePattern(toSnapshot).phases

\* C14 as stated: in every reachable state whose base total is positive,
\* adjustedPhases[k] * baseTotal = basePhases[k] * totalCycleTime for each of
\* inhale, holdIn, exhale, holdOut (the adjusted durations are numerators
\* over den; both sides are divided by gcd(totalCycleTime, baseTotal)).
C14_CommonRatio ==
  activeBaseTotal > 0
    => LET g == GCD(totalCycleTime, activeBaseTotal)
       IN \A k \in PhaseKeys :
            adjustedPhases[k] * (activeBaseTotal \div g)
              = activeBasePhases[k] * (totalCycleTime \div g) * adjustedPhases.den

\* Math.min(1, phaseInfo.elapsed / phaseInfo.duration), as a fraction
phaseProgress ==
  IF phaseInfo.duration <= 0 THEN [num |-> 0, den |-> 1]
  ELSE IF phaseInfo.elapsed >= phaseInfo.duration THEN [num |-> 1, den |-> 1]
  ELSE [num |-> phaseInfo.elapsed, den |-> phaseInfo.duration]

\* Math.max(0, phaseInfo.duration - phaseInfo.elapsed), over phaseInfo.den
phaseRemaining == Max(0, phaseInfo.duration - phaseInfo.elapsed)

\* C15: phaseProgress and cycleProgress lie in [0, 1] in every reachable
\* state, also right after the cycle was shrunk below currentTime and with
\* an active pattern of zero duration; phaseRemaining is never negative and
\* the elapsed time in the phase is never negative.
C15_ProgressInUnitRange ==
  /\ cycleProgress.den > 0
  /\ 0 <= cycleProgress.num
  /\ cycleProgress.num <= cycleProgress.den
  /\ phaseProgress.den > 0
  /\ 0 <= phaseProgress.num
  /\ phaseProgress.num <= phaseProgress.den
  /\ phaseInfo.elapsed >= 0
  /\ phaseInfo.den > 0
  /\ phaseRemaining >= 0

\* the all-zero custom pattern was applied during playback at a currentTime
\* above the 500 ms floor
C15_Witness ==
  /\ last.op = "setCustomPattern"
  /\ isPlaying
  /\ SumPhases(adjustedPhases) = 0
  /\ currentTime > totalCycleTime
  /\ cycleProgress.num = cycleProgress.den
  /\ phaseProgress.num = 0

\* C16: reset(), called in any state, leaves isPlaying = false,
\* currentPhase = 'ready', currentTime = 0, cycleCount = 1, sessionTime = 0
\* and cycleSpeedAdjustment = 0, with the timer's elapsed time at 0, no
\* previous timestamp and no driver subscription; a play() that follows
\* starts at elapsed time 0 in cycle 1 with sessionTime 0.
C16_ResetRestoresPlayback ==
  /\ [](last.op = "reset"
          => /\ ~isPlaying
             /\ currentPhase = "ready"
             /\ currentTime = 0
             /\ cycleCount = 1
             /\ sessionTime = 0
             /\ cycleSpeedAdjustment = 0
             /\ timeRef = 0
             /\ lastTimestampRef = Null
             /\ driverActive = 0)
  /\ [][(last.op = "reset" /\ last'.op = "play")
          => /\ isPlaying'
             /\ currentTime' = 0
             /\ cycleCount' = 1
             /\ sessionTime' = 0
             /\ timeRef' = 0
             /\ lastTimestampRef' = Null]_vars

\* right after a reset() called during playback with time elapsed, a cycle
\* completed and the speed adjusted
C16_Witness ==
  /\ last.op = "reset"
  /\ last.arg = 1
  /\ cycleCount = 1
  /\ sessionTime = 0
  /\ cycleSpeedAdjustment = 0

\* C17 as stated: reset() leaves selectedPattern, customPattern, draftPhases
\* and draftMethods as they were, for every selection.
C17_ResetKeepsSelection ==
  [][last'.op = "reset"
       => UNCHANGED <<selectedPattern, customPattern, draftPhases,
                      draftMethods>>]_vars

\* C18 as stated: play() sets isPlaying = true and currentPhase = 'inhale'
\* and changes nothing else: currentTime, cycleCount, sessionTime, the
\* pattern state and the derived values keep their values.
C18_PlayChangesNothingElse ==
  [][last'.op = "play"
       => /\ isPlaying'
          /\ currentPhase' = "inhale"
          /\ UNCHANGED <<currentTime, cycleCount, sessionTime, configVars,
                         derivedVars>>]_vars

\* C19 as stated: right after play() currentPhase is the first phase, in the
\* order inhale, hold-in, exhale, hold-out, that has a positive duration in
\* the active pattern; it is not 'inhale' when the pattern has inhale = 0.
C19_PlayFirstPositivePhase ==
  (last.op = "play" /\ PositiveKeys(adjustedPhases) # {})
    => /\ currentPhase = getPhaseInfo(0, adjustedPhases).phase
       /\ adjustedPhases.inhale = 0 => currentPhase # "inhale"

\* C20 as stated: driver.start is called exactly once each time playback
\* begins (isPlaying false to true) and at no other step; a stop function is
\* called exactly once when playback ends and at no other step during
\* playback; at most one subscription is active at any time, none while
\* isPlaying is false, and no step calls a stop function twice.
C20_StartOncePerPlayback ==
  /\ [](/\ driverActive <= 1
        /\ ~isPlaying => driverActive = 0
        /\ driverLog.stopped <= 1)
  /\ [][/\ (~isPlaying /\ isPlaying') => driverLog'.started = 1
        /\ (isPlaying /\ ~isPlaying') => driverLog'.stopped = 1
        /\ driverLog'.started = 1 => (~isPlaying /\ isPlaying')
        /\ driverLog'.stopped = 1 => (isPlaying /\ ~isPlaying')]_vars

\* C21 as stated: after every store action totalCycleTime and adjustedPhases
\* equal the derivation applied to the store's current selectedPattern,
\* customPattern, draftPhases and speedAdjustment.
C21_DerivedFresh == Derived = deriveValues(toSnapshot)

\* Math.max(0, Math.min(10000, value))
clampPhase(value) == Max(0, Min(MAX_PHASE, value))

\* C22: adjustPhase(key, delta) sets draftPhases[key] to draftPhases[key] +
\* delta clamped into [0, 10000], leaves the other three draft durations
\* unchanged, sets selectedPattern to 'custom' and settingsSaved to false,
\* for every delta and starting selection.
C22_AdjustPhaseDrafts ==
  [][last'.op = "adjustPhase"
       => /\ draftPhases'
               = [draftPhases EXCEPT
                    ![last'.key] = clampPhase(draftPhases[last'.key] + last'.arg)]
          /\ \A k \in PhaseKeys \ {last'.key} : draftPhases'[k] = draftPhases[k]
          /\ selectedPattern' = "custom"
          /\ ~settingsSaved']_vars

\* the lower clamp took effect on holdIn while a custom pattern was stored
C22_Witness ==
  /\ last.op = "adjustPhase"
  /\ last.key = "holdIn"
  /\ last.arg = -5000
  /\ draftPhases.holdIn = 0
  /\ customPattern # Null
  /\ selectedPattern = "custom"
  /\ ~settingsSaved

\* C23 as stated: right after adjustPhase(key, delta) the active durations
\* are derived from the updated drafts: totalCycleTime = max(500, sum of the
\* updated draftPhases + speedAdjustment) and adjustedPhases are the updated
\* drafts scaled to that total, from every prior state.
C23_AdjustPhaseIsLive ==
  [][last'.op = "adjustPhase"
       => LET fromDrafts == deriveValues(Snapshot("custom", Null,
                                                  cycleSpeedAdjustment',
                                                  draftPhases', draftMethods'))
          IN /\ totalCycleTime'
                  = Max(MIN_TOTAL, SumPhases(draftPhases') + cycleSpeedAdjustment')
             /\ adjustedPhases' = fromDrafts.adjustedPhases]_vars

\* C24: updateDraftPhase(key, value) stores value clamped into [0, 10000] in
\* draftPhases[key] and sets settingsSaved = false; it leaves
\* selectedPattern, customPattern, draftMethods, speedAdjustment,
\* totalCycleTime, adjustedPhases and all playback fields unchanged.
C24_UpdateDraftPhaseFrame ==
  [][last'.op = "updateDraftPhase"
       => /\ draftPhases'
               = [draftPhases EXCEPT ![last'.key] = clampPhase(last'.arg)]
          /\ ~settingsSaved'
          /\ UNCHANGED <<selectedPattern, customPattern, draftMethods,
                         cycleSpeedAdjustment, derivedVars, playbackVars>>]_vars

\* a value above 10000 was stored during playback while the drafts are the
\* active pattern (selection 'custom', no custom pattern stored)
C24_Witness ==
  /\ last.op = "updateDraftPhase"
  /\ last.arg > MAX_PHASE
  /\ draftPhases[last.key] = MAX_PHASE
  /\ selectedPattern = "custom"
  /\ customPattern = Null
  /\ isPlaying
  /\ ~settingsSaved

\* C25: selectPattern(key) for a known preset key sets selectedPattern = key,
\* customPattern = null, draftPhases and draftMethods to the preset's,
\* speedAdjustment = 0 and settingsSaved = true, and afterwards
\* totalCycleTime is the sum of the preset's four durations and
\* adjustedPhases are the preset's phases, whatever speed adjustment or
\* custom pattern was active before.
C25_SelectKnownPreset ==
  [][(last'.op = "selectPattern" /\ HasPreset(last'.key))
       => LET preset == BREATHING_PATTERNS[PresetKey(last'.key)]
          IN /\ selectedPattern' = last'.key
             /\ customPattern' = Null
             /\ draftPhases' = preset.phases
             /\ draftMethods' = preset.methods
             /\ cycleSpeedAdjustment' = 0
             /\ settingsSaved'
             /\ totalCycleTime' = SumPhases(preset.phases)
             /\ adjustedPhases'.den = 1
             /\ \A k \in PhaseKeys : adjustedPhases'[k] = preset.phases[k]]_vars

\* '4-7-8' was selected during playback over an adjusted or custom pattern
C25_Witness ==
  /\ last.op = "selectPattern"
  /\ last.key = "4-7-8"
  /\ last.arg = 1
  /\ isPlaying
  /\ totalCycleTime = 19000
  /\ adjustedPhases.exhale = 8000

\* a selection that is neither a preset key nor 'custom'
Unrecognized(k) == ~HasPreset(k) /\ k # "custom"

\* the derived values of the default preset under the store's speed adjustment
defaultDerived ==
  deriveValues(Snapshot(DEFAULT_PATTERN_KEY, customPattern,
                        cycleSpeedAdjustment, draftPhases, draftMethods))

C27_SaveSettings ==
  [][/\ last'.op = "saveSettings"
          => /\ customPattern'
                  = Some([phases |-> draftPhases, methods |-> draftMethods])
             /\ UNCHANGED <<draftPhases, draftMethods, cycleSpeedAdjustment>>
             /\ selectedPattern' = "custom"
             /\ settingsSaved'
             /\ totalCycleTime'
                  = Max(MIN_TOTAL, SumPhases(draftPhases) + cycleSpeedAdjustment)
     /\ (last'.op = "updateDraftPhase" /\ customPattern # Null)
          => UNCHANGED customPattern]_vars

\* a draft was changed after saveSettings() had stored the default durations
C27_Witness ==
  /\ last.op = "updateDraftPhase"
  /\ customPattern # Null
  /\ customPattern[1].phases = BREATHING_PATTERNS[DEFAULT_PATTERN_KEY].phases
  /\ draftPhases.inhale = MAX_PHASE
  /\ selectedPattern = "custom"
  /\ totalCycleTime = 10000

\* C28: across a restart exactly selectedPattern, customPattern, draftPhases,
\* draftMethods and speedAdjustment survive: after rehydration these five
\* fields have their persisted values, the playback fields and settingsSaved
\* have their initial values, and totalCycleTime and adjustedPhases are
\* recomputed from the persisted fields.
C28_RestartKeepsPatternFields ==
  [][last'.op = "rehydrate"
       => /\ UNCHANGED <<selectedPattern, customPattern, draftPhases,
                         draftMethods, cycleSpeedAdjustment>>
          /\ ~isPlaying'
          /\ currentPhase' = "ready"
          /\ currentTime' = 0
          /\ cycleCount' = 1
          /\ sessionTime' = 0
          /\ settingsSaved'
          /\ Derived' = deriveValues(toSnapshot)]_vars

\* restarted from running playback with time elapsed, a cycle completed,
\* unsaved drafts as the active pattern and an adjusted speed
C28_Witness ==
  /\ last.op = "rehydrate"
  /\ last.arg = 1
  /\ selectedPattern = "custom"
  /\ cycleSpeedAdjustment # 0
  /\ draftPhases # BREATHING_PATTERNS[DEFAULT_PATTERN_KEY].phases
  /\ currentPhase = "ready"
  /\ settingsSaved

\* C29 as stated: the store's initial state has isPlaying = false,
\* currentPhase = 'ready', cycleCount = 1 and selectedPattern = 'box', and its
\* initial totalCycleTime is 16000 ms.
C29_InitialState ==
  last.op = "init"
    => /\ ~isPlaying
       /\ currentPhase = "ready"
       /\ cycleCount = 1
       /\ selectedPattern = "box"
       /\ totalCycleTime = 16000

\* C30: the first tick after every start or resume only records its
\* timestamp and changes no store field, and the last-seen timestamp is
\* cleared whenever playback stops and when it starts; a tick delivered
\* without a last-seen timestamp changes no store field, so the time between
\* pause() and the following play() is never added to currentTime or
\* sessionTime and completes no cycle, however large the timestamp gap.
C30_FirstTickOnlyRecords ==
  /\ [](~isPlaying => lastTimestampRef = Null)
  /\ [][/\ last'.op \in {"play", "pause"} => lastTimestampRef' = Null
        /\ (last.op = "play" /\ last'.op \in TickOps)
             => /\ last'.op = "tickFirst"
                /\ lastTimestampRef' # Null
                /\ UNCHANGED storeVars
        /\ (last'.op \in TickOps /\ lastTimestampRef = Null)
             => UNCHANGED storeVars
        /\ AdvancingTick
             => /\ last'.delta >= 0
                /\ sessionTime' = sessionTime + last'.delta
                /\ \E timestamp \in Timestamps :
                     last'.delta = frameDelta(timestamp, lastTimestampRef[1])]_vars

\* the first tick after a resume came 4000 ms after the last tick before the
\* pause, and added nothing
C30_Witness ==
  /\ last.op = "tickFirst"
  /\ last.arg = 2
  /\ lastTimestampRef = Some(8000)
  /\ sessionTime = 4000
  /\ currentTime = 4000
  /\ cycleCount = 1

\* C31 as stated: after every tick that runs past the first-tick guard the
\* store's currentPhase is the phase of the store's currentTime in the
\* store's adjustedPhases, whatever currentPhase was before the tick.
C31_TickCorrectsPhase ==
  [][AdvancingTick
       => currentPhase' = getPhaseInfo(currentTime', adjustedPhases').phase]_vars

\* C32 as stated: in every reachable state with isPlaying = true the store's
\* currentPhase is the phase derived from the store's currentTime and
\* adjustedPhases.
C32_PhaseMatchesClock == isPlaying => currentPhase = phaseInfo.phase

\* C33 as stated: at the moment a tick runs, the timer's shadow copies of
\* totalCycleTime and adjustedPhases equal the store's values and its shadow
\* elapsed time equals the store's currentTime re-clamped to the current
\* total.
C33_ShadowEqualsStore ==
  [][last'.op \in TickOps
       => /\ totalRef = totalCycleTime
          /\ phasesRef = adjustedPhases
          /\ timeRef = clampTime(currentTime, totalCycleTime)]_vars

\* C33 amended: at the moment a tick runs, the shadow copies of
\* totalCycleTime and adjustedPhases equal the store's values and the shadow
\* elapsed time lies in [0, totalCycleTime); it equals the store's
\* currentTime unless totalCycleTime was reduced to at most currentTime since
\* currentTime was last written (then it is the result of the re-clamps made
\* at each change of the total); a tick past the first-tick guard wraps
\* against the store's current total and derives the phase from the store's
\* current adjustedPhases.
C33_ShadowsCurrent ==
  [][/\ last'.op \in TickOps
          => /\ totalRef = totalCycleTime
             /\ phasesRef = adjustedPhases
             /\ 0 <= timeRef
             /\ timeRef < totalCycleTime
             /\ ~shrunk => timeRef = clampTime(currentTime, totalCycleTime)
             /\ ~shrunk => timeRef = currentTime
     /\ AdvancingTick
          => /\ currentTime' = (timeRef + last'.delta) % totalCycleTime
             /\ currentPhase'
                  = phaseAfterTick(currentPhase, last'.cycles,
                                   getPhaseInfo(currentTime', adjustedPhases).phase)]_vars

\* a tick ran after the cycle was shrunk below currentTime and lengthened
\* again: the shadow elapsed time is not currentTime re-clamped
C33_Witness ==
  /\ last.op = "tickFirst"
  /\ isPlaying
  /\ shrunk
  /\ currentTime < totalCycleTime
  /\ timeRef # clampTime(currentTime, totalCycleTime)
  /\ totalRef = totalCycleTime
  /\ phasesRef = adjustedPhases

ProbePastEnd ==
  /\ probe.result # Null
  /\ probe.time * probe.phases[1].den >= SumPhases(probe.phases[1])

\* Math.min(1, elapsed / duration) of the result of getPhaseInfo
probeProgress ==
  LET r == probe.result[1]
  IN IF r.duration <= 0 THEN [num |-> 0, den |-> 1]
     ELSE IF r.elapsed >= r.duration THEN [num |-> 1, den |-> 1]
     ELSE [num |-> r.elapsed, den |-> r.duration]

\* C35 as stated: when the time passed to getPhaseInfo is not below the sum
\* of the phase durations, getPhaseInfo returns phase inhale with elapsed 0
\* and duration max(1, phases.inhale) (durations are numerators over den).
C35_FallbackMaxOne ==
  ProbePastEnd
    => /\ probe.result[1].phase = "inhale"
       /\ probe.result[1].elapsed = 0
       /\ probe.result[1].duration
            = Max(probe.phases[1].den, probe.phases[1].inhale)

\* C35 amended: when the time passed to getPhaseInfo is not below the sum of
\* the phase durations, getPhaseInfo returns phase inhale with elapsed 0 and
\* duration phases.inhale when that is positive, 1 otherwise; the returned
\* duration is positive and the derived phaseProgress is 0.
C35_FallbackPositive ==
  ProbePastEnd
    => /\ probe.result[1].phase = "inhale"
       /\ probe.result[1].elapsed = 0
       /\ probe.result[1].duration
            = (IF probe.phases[1].inhale > 0 THEN probe.phases[1].inhale
               ELSE probe.phases[1].den)
       /\ probe.result[1].duration > 0
       /\ probeProgress.num = 0
       /\ probeProgress.den > 0

\* the fallback was taken with an inhale duration of 1/3
C35_Witness ==
  /\ ProbePastEnd
  /\ probe.phases[1].inhale = 1
  /\ probe.phases[1].den = 3
  /\ probe.result[1].phase = "inhale"
  /\ probe.result[1].duration = 1

ConfigActions ==
  {"selectPattern", "setCustomPattern", "updateDraftPhase", "updateDraftMethod",
   "adjustPhase", "saveSettings", "adjustCycleSpeed"}

\* C36: selectPattern, setCustomPattern, updateDraftPhase, updateDraftMethod,
\* adjustPhase, saveSettings and adjustCycleSpeed leave isPlaying,
\* currentPhase, currentTime, cycleCount and sessionTime as they were,
\* whether playing or paused.
C36_ConfigKeepsPlayback ==
  [][last'.op \in ConfigActions => UNCHANGED playbackVars]_vars

\* a custom pattern was applied during playback in the second cycle
C36_Witness ==
  /\ last.op = "setCustomPattern"
  /\ isPlaying
  /\ currentTime > 0
  /\ sessionTime > 0
  /\ cycleCount > 1
  /\ currentPhase = "exhale"

\* C37: when a store action brings totalCycleTime to at most the timer's
\* elapsed time, the elapsed time is reduced modulo the new total and
\* cycleCount and sessionTime are unchanged; every tick that follows adds
\* only its own delta to sessionTime (nothing when it is a first tick) and
\* adds to cycleCount the boundaries crossed by that delta from the
\* re-clamped time.
C37_ReclampIsNotProgress ==
  [][/\ (last'.op \in (ConfigActions \cup {"play"})
           /\ totalCycleTime' <= timeRef)
          => /\ timeRef' = timeRef % totalCycleTime'
             /\ UNCHANGED <<cycleCount, sessionTime, currentTime>>
     /\ (last'.op \in TickOps /\ shrunk)
          => /\ timeRef < totalCycleTime
             /\ sessionTime' = sessionTime + last'.delta
             /\ cycleCount' = cycleCount + last'.cycles
     /\ (AdvancingTick /\ shrunk)
          => /\ last'.cycles = (timeRef + last'.delta) \div totalCycleTime
             /\ last'.cycles <= (last'.delta \div totalCycleTime) + 1
             /\ currentTime' = (timeRef + last'.delta) % totalCycleTime]_vars

\* the tick after a shrink from 10000 to 3000 at elapsed time 4000: delta
\* 4000 from the re-clamped time 1000 crossed one boundary
C37_Witness ==
  /\ last.op = "tickForward"
  /\ last.arg = 1
  /\ last.delta = 4000
  /\ last.cycles = 1
  /\ totalCycleTime = 3000
  /\ currentTime = 2000
  /\ sessionTime = 8000
  /\ cycleCount = 2

\* C38 as stated: each tick of a playing period after the first credits
\* max(0, timestamp - previous timestamp) to currentTime and sessionTime,
\* the previous timestamp being that of the immediately preceding tick of
\* the same playing period.
C38_DeltaFromPrevious ==
  [][(last'.op \in TickOps /\ isPlaying /\ prevTimestamp # Null)
       => LET credit == Max(0, prevTimestamp'[1] - prevTimestamp[1])
          IN /\ sessionTime' = sessionTime + credit
             /\ currentTime' = (currentTime + credit) % totalCycleTime]_vars

====
